---- MODULE Spec2Model ----
(***************************************************************************)
(* zustand-plus: createStore / createPersistStore (src/src/store.ts) and   *)
(* getMergedState (src/unnamed/part_000).                                  *)
(*                                                                         *)
(* A store is one state object (key -> value) kept by the host engine.     *)
(* Values are numbers, functions (the methods, compared by identity) and   *)
(* references to nested objects that live in a heap, so that sharing       *)
(* between the state and a draft is visible.  update() is modelled step by *)
(* step (read+clone, the mutator's statements, commit or throw); all other *)
(* calls run only when no update is on the call stack, except the calls a  *)
(* mutator itself makes.  The engine (set, combine, persist with its       *)
(* default options) is the zustand library the store is built on; whether  *)
(* the adapter saves right after hydration differs between its versions    *)
(* and is left open.  The clock does not run backwards.                    *)
(***************************************************************************)
EXTENDS Integers, FiniteSets, Sequences, TLC

\* ---- bounds -------------------------------------------------------------
MaxVal == 1            \* user values are 0..MaxVal
MaxClock == 2          \* the clock reads 1..MaxClock
NCells == 2            \* heap cells for nested objects

Vals == 0..MaxVal
Cells == 1..NCells

\* ---- values -------------------------------------------------------------
Num(n) == [t |-> "num", v |-> n]
Fn(n) == [t |-> "fn", v |-> n]
Ref(c) == [t |-> "ref", v |-> c]
Obj(n) == [t |-> "obj", v |-> n]      \* a nested object {name: n}, by value

LUT == "lastUpdateTime"
NestedKey == "user"

\* identities of the functions that can sit in a methods mapping
SysMarkUpdate == 1
SysUpdate == 2
UsrIncrement == 3
UsrMarkUpdate == 4
UsrUpdate == 5

Empty == [k \in {} |-> Num(0)]
One(k, v) == [x \in {k} |-> v]

\* {...target, ...source} / Object.assign({}, target, source)
ObjectAssign(target, source) ==
  [k \in DOMAIN target \cup DOMAIN source |->
     IF k \in DOMAIN source THEN source[k] ELSE target[k]]

Without(obj, k) == [x \in DOMAIN obj \ {k} |-> obj[x]]

\* ---- heap ---------------------------------------------------------------
RefsOf(obj) == {obj[k].v : k \in {x \in DOMAIN obj : obj[x].t = "ref"}}

Alloc(used) == CHOOSE c \in Cells \ used : \A d \in Cells \ used : c <= d

\* unreachable cells are reclaimed
Collect(hp, roots) == [c \in Cells |-> IF c \in roots THEN hp[c] ELSE 0]

\* between calls only the state is live: its nested object is moved to the
\* first cell (addresses are not observable)
Compact(obj) ==
  [k \in DOMAIN obj |-> IF obj[k].t = "ref" THEN Ref(1) ELSE obj[k]]

CompactHeap(obj, hp) ==
  [c \in Cells |->
     IF c = 1 /\ RefsOf(obj) # {} THEN hp[CHOOSE r \in RefsOf(obj) : TRUE] ELSE 0]

\* the value of an object graph: references replaced by what they point to
Struct(obj, hp) ==
  [k \in DOMAIN obj |-> IF obj[k].t = "ref" THEN Obj(hp[obj[k].v]) ELSE obj[k]]

\* ---- the host engine ----------------------------------------------------
\* set(partial, replace)
ZustandSet(st, partial, replace) ==
  IF replace THEN partial ELSE ObjectAssign(st, partial)

\* combine(initialState, create): Object.assign({}, initialState, create(set, get))
Combine(initial, created) == ObjectAssign(initial, created)

\* JSON storage keeps data and drops function-valued keys
Serialize(structState) ==
  [k \in {x \in DOMAIN structState : structState[x].t # "fn"} |-> structState[k]]

\* ---- store.ts -----------------------------------------------------------
\* {...state, lastUpdateTime: 0}
InitialWithTime(initial) == ObjectAssign(initial, One(LUT, Num(0)))

InjectedMethods ==
  ObjectAssign(One("markUpdate", Fn(SysMarkUpdate)), One("update", Fn(SysUpdate)))

InitializerUserLast(userMethods) == ObjectAssign(InjectedMethods, userMethods)

\* {...methods(set, get), markUpdate() {..}, update(updater) {..}}
Initializer(userMethods) == ObjectAssign(userMethods, InjectedMethods)

\* the argument markUpdate hands to set
MarkUpdatePartial(t) == One(LUT, Num(t))

SetMarkUpdateReplacing(st, t) == ZustandSet(st, MarkUpdatePartial(t), TRUE)

\* markUpdate(): set({ lastUpdateTime: Date.now() })
SetMarkUpdate(st, t) == ZustandSet(st, MarkUpdatePartial(t), FALSE)

UpdatePartialTimeFirst(d, t) == ObjectAssign(One(LUT, Num(t)), d)

\* the argument update hands to set: {...state, lastUpdateTime: Date.now()}
UpdatePartial(d, t) == ObjectAssign(d, One(LUT, Num(t)))

SetUpdateReplacing(st, d, t) == ZustandSet(st, UpdatePartial(d, t), TRUE)

\* update(): set({...state, lastUpdateTime: Date.now()}) once updater returned
SetUpdate(st, d, t) == ZustandSet(st, UpdatePartial(d, t), FALSE)

AfterThrowFinally(st, d, t) == SetUpdate(st, d, t)

\* update(): updater(state) threw, so the set after it is never reached
AfterThrow(st, d, t) == st

\* deepClone(get()): nested objects are copied into the fresh cell c,
\* numbers and functions are kept
deepClone(obj, c) ==
  [k \in DOMAIN obj |-> IF obj[k].t = "ref" THEN Ref(c) ELSE obj[k]]

getMergedStateStateLast(got, methods) == ObjectAssign(methods, got)

\* getMergedState(_get, methods): {..._get(), ...methods}
getMergedState(got, methods) == ObjectAssign(got, methods)

\* ---- state --------------------------------------------------------------
VARIABLES
  kind,         \* "plain" (createStore) or "persist" (createPersistStore)
  factoryCalls, \* calls of the methods factory for the current store
  state,        \* the engine's current state object
  heap,         \* nested objects
  storage,      \* what the persistence adapter last saved
  now,          \* Date.now()
  pc,           \* "idle", or "mutator" while update runs its updater
  draft,        \* update's local clone; after update, its last value
  reentrant,    \* the running/last mutator wrote to the store itself
  before,       \* value of the state when the running/last call began
  lastOp,       \* the call that made the last step
  arg,          \* what that call was given
  result        \* what that call returned

vars == <<kind, factoryCalls, state, heap, storage, now, pc,
          draft, reentrant, before, lastOp, arg, result>>

UserInitial == ObjectAssign(One("count", Num(0)), One(NestedKey, Ref(1)))

\* what the methods factory returns: its own method and entries named like
\* the injected ones
UserMethods ==
  ObjectAssign(One("increment", Fn(UsrIncrement)),
               ObjectAssign(One("markUpdate", Fn(UsrMarkUpdate)),
                            One("update", Fn(UsrUpdate))))

\* create(combine({...state, lastUpdateTime: 0}, (set, get) => ({...})))
CreateStoreState(initial, um) == Combine(InitialWithTime(initial), Initializer(um))

Save(k, st, hp, old) == IF k = "persist" THEN Serialize(Struct(st, hp)) ELSE old

DateNow == now

IdleAlways(p) == TRUE

\* update and the other calls are synchronous: a call from outside starts
\* only when no update is running
Idle(p) == p = "idle"

\* ---- construction -------------------------------------------------------
FreshHeap == [c \in Cells |-> 0]

\* persist's default merge on hydration: {...currentState, ...persistedState}
Hydrate(current, persisted) == ObjectAssign(current, persisted)

CreatePlainOnly(initial, um, persisted) ==
  Struct(CreateStoreState(initial, um), FreshHeap)

\* create(persist(combine(...), persistOptions)): the value of the new
\* store's state once the adapter has hydrated it
CreatePersistStoreState(initial, um, persisted) ==
  Hydrate(Struct(CreateStoreState(initial, um), FreshHeap), persisted)

\* a parsed snapshot becomes live objects again
Materialize(structState) ==
  [k \in DOMAIN structState |->
     IF structState[k].t = "obj" THEN Ref(1) ELSE structState[k]]

MaterializeHeap(structState) ==
  [c \in Cells |->
     IF c = 1 /\ NestedKey \in DOMAIN structState /\ structState[NestedKey].t = "obj"
     THEN structState[NestedKey].v ELSE 0]

Init ==
  /\ kind \in {"plain", "persist"}
  /\ factoryCalls = 1
  /\ state = CreateStoreState(UserInitial, UserMethods)
  /\ heap = FreshHeap
  /\ storage \in {Empty, Save(kind, state, heap, Empty)}
  /\ now = 1
  /\ pc = "idle"
  /\ draft = Empty
  /\ reentrant = FALSE
  /\ before = Empty
  /\ lastOp = "create"
  /\ arg = Empty
  /\ result = Empty

\* ---- calls from outside -------------------------------------------------
\* time passes between calls
Tick ==
  /\ Idle(pc)
  /\ now < MaxClock
  /\ now' = now + 1
  /\ draft' = Empty
  /\ reentrant' = FALSE
  /\ before' = Empty
  /\ lastOp' = "tick"
  /\ arg' = Empty
  /\ result' = Empty
  /\ UNCHANGED <<kind, factoryCalls, state, heap, storage, pc>>

\* a call from outside that is not an update
Outside ==
  /\ Idle(pc)
  /\ draft' = Empty
  /\ reentrant' = FALSE
  /\ before' = Struct(state, heap)
  /\ UNCHANGED <<kind, now, pc>>

SetLabel(key, replace) ==
  IF replace THEN "setReplace" ELSE IF key = LUT THEN "setTime" ELSE "set"

SetKeys == {"count", NestedKey, LUT}
ReplaceKeys == {"count"}      \* set({count: val}, true)

\* a user method calls the set it was given by the factory:
\* set({key: val}, replace); a nested value is a new object
UserSet(key, val, replace) ==
  /\ Outside
  /\ replace => key \in ReplaceKeys
  /\ LET c == Alloc(RefsOf(state))
         partial == IF key = NestedKey THEN One(key, Ref(c)) ELSE One(key, Num(val))
         hp == IF key = NestedKey THEN [heap EXCEPT ![c] = val] ELSE heap
         st == ZustandSet(state, partial, replace)
     IN /\ state' = Compact(st)
        /\ heap' = CompactHeap(st, hp)
  /\ storage' = Save(kind, state', heap', storage)
  /\ lastOp' = SetLabel(key, replace)
  /\ arg' = Empty
  /\ result' = Empty
  /\ UNCHANGED factoryCalls

MarkUpdate ==
  /\ Outside
  /\ state' = SetMarkUpdate(state, DateNow)
  /\ heap' = heap
  /\ storage' = Save(kind, state', heap', storage)
  /\ lastOp' = "markUpdate"
  /\ arg' = Empty
  /\ result' = Empty
  /\ UNCHANGED factoryCalls

\* methods mappings handed to getMergedState: a factory's own methods, or
\* one with an entry named like a state field
MergeMethodChoices ==
  {UserMethods, One("increment", Fn(UsrIncrement)), One("count", Fn(UsrIncrement))}

GetMerged(m) ==
  /\ Outside
  /\ result' = getMergedState(state, m)
  /\ arg' = m
  /\ lastOp' = "getMergedState"
  /\ UNCHANGED <<factoryCalls, state, heap, storage>>

\* the page is loaded again: the same createPersistStore call, hydrated from
\* what the adapter saved last
Reload ==
  /\ Outside
  /\ kind = "persist"
  /\ LET s == CreatePersistStoreState(UserInitial, UserMethods, storage)
     IN /\ state' = Materialize(s)
        /\ heap' = MaterializeHeap(s)
        /\ storage' \in {storage, Serialize(s)}
  /\ factoryCalls' = 1
  /\ lastOp' = "reload"
  /\ arg' = Empty
  /\ result' = Empty

\* ---- update(updater) ----------------------------------------------------
\* const state = deepClone(get()); the updater starts
UpdateBegin ==
  /\ Idle(pc)
  /\ LET c == Alloc(RefsOf(state))
     IN /\ draft' = deepClone(state, c)
        /\ heap' = IF NestedKey \in DOMAIN state
                   THEN [heap EXCEPT ![c] = heap[state[NestedKey].v]] ELSE heap
  /\ pc' = "mutator"
  /\ reentrant' = FALSE
  /\ before' = Struct(state, heap)
  /\ lastOp' = "updateBegin"
  /\ arg' = Empty
  /\ result' = Empty
  /\ UNCHANGED <<kind, factoryCalls, state, storage, now>>

\* one statement of the running updater
MutatorFrame ==
  /\ pc = "mutator"
  /\ arg' = Empty
  /\ result' = Empty
  /\ UNCHANGED <<kind, factoryCalls, now, pc, before>>

AssignKeys == {"count", LUT}

\* draft.k = v (k may be a field the draft does not have)
MutatorAssign(k, v) ==
  /\ MutatorFrame
  /\ draft' = ObjectAssign(draft, One(k, Num(v)))
  /\ lastOp' = "mutator"
  /\ UNCHANGED <<state, heap, storage, reentrant>>

\* draft.user.name = v
MutatorAssignNested(v) ==
  /\ MutatorFrame
  /\ NestedKey \in DOMAIN draft
  /\ heap' = [heap EXCEPT ![draft[NestedKey].v] = v]
  /\ lastOp' = "mutator"
  /\ UNCHANGED <<state, storage, draft, reentrant>>

\* delete draft.k
MutatorDelete(k) ==
  /\ MutatorFrame
  /\ k \in DOMAIN draft
  /\ draft' = Without(draft, k)
  /\ heap' = Collect(heap, RefsOf(state) \cup RefsOf(draft'))
  /\ lastOp' = "mutator"
  /\ UNCHANGED <<state, storage, reentrant>>

\* the updater itself calls a user method that writes to the store,
\* increment: () => set((state) => ({ count: state.count + 1 }))
MutatorIncrement ==
  /\ MutatorFrame
  /\ "count" \in DOMAIN state
  /\ state["count"].v < MaxVal
  /\ state' = ZustandSet(state, One("count", Num(state["count"].v + 1)), FALSE)
  /\ storage' = Save(kind, state', heap, storage)
  /\ reentrant' = TRUE
  /\ lastOp' = "mutatorSet"
  /\ UNCHANGED <<heap, draft>>

\* update is left: what its draft was is remembered by value
UpdateEnd(st) ==
  /\ pc = "mutator"
  /\ pc' = "idle"
  /\ draft' = Struct(draft, heap)
  /\ state' = Compact(st)
  /\ heap' = CompactHeap(st, heap)
  /\ arg' = Empty
  /\ result' = Empty
  /\ UNCHANGED <<kind, factoryCalls, now, reentrant, before>>

\* the updater raises: the error leaves update before its set
UpdateThrow ==
  /\ UpdateEnd(AfterThrow(state, draft, DateNow))
  /\ UNCHANGED storage
  /\ lastOp' = "updateThrew"

\* the updater returns: set({...state, lastUpdateTime: Date.now()})
UpdateCommit ==
  /\ UpdateEnd(SetUpdate(state, draft, DateNow))
  /\ storage' = Save(kind, state', heap', storage)
  /\ lastOp' = "update"

Next ==
  \/ Tick
  \/ \E key \in SetKeys, val \in Vals, replace \in BOOLEAN : UserSet(key, val, replace)
  \/ MarkUpdate
  \/ \E m \in MergeMethodChoices : GetMerged(m)
  \/ Reload
  \/ UpdateBegin
  \/ \E k \in AssignKeys, v \in Vals : MutatorAssign(k, v)
  \/ \E v \in Vals : MutatorAssignNested(v)
  \/ \E k \in SetKeys : MutatorDelete(k)
  \/ MutatorIncrement
  \/ UpdateThrow
  \/ UpdateCommit

Spec == Init /\ [][Next]_vars

\* ---- properties ----------------------------------------------------------
Value == Struct(state, heap)

TimeOf(obj) == obj[LUT].v

\* C1: after update(m) with a mutator that returns and only wrote to its
\* draft, the state is the mutated clone of the prior state with
\* lastUpdateTime set to the clock reading at commit, removals included.
C1_StateIsMutatedClone ==
  (lastOp = "update" /\ ~reentrant) =>
    Value = ObjectAssign(draft, One(LUT, Num(now)))

\* C2: when the mutator raises, update's set is not reached: the step that
\* leaves update changes neither the state nor the saved snapshot, and if the
\* mutator wrote only to its draft the state is the one update read, every
\* field including lastUpdateTime.
C2_ThrowLeavesState ==
  [][lastOp' = "updateThrew" =>
       /\ Struct(state', heap') = Struct(state, heap)
       /\ storage' = storage
       /\ ~reentrant => Struct(state', heap') = before]_vars

C2_Witness ==
  /\ lastOp = "updateThrew"
  /\ ~reentrant
  /\ draft # before
  /\ NestedKey \in DOMAIN draft
  /\ draft[NestedKey] # before[NestedKey]

\* C3: markUpdate() sets lastUpdateTime to the clock reading and leaves
\* every other entry of the store, fields and methods, as it was.
C3_MarkUpdateFrame ==
  lastOp = "markUpdate" =>
    /\ DOMAIN Value = DOMAIN before \cup {LUT}
    /\ Value[LUT] = Num(now)
    /\ \A k \in DOMAIN before \ {LUT} : Value[k] = before[k]

C3_Witness ==
  /\ lastOp = "markUpdate"
  /\ DOMAIN state = DOMAIN CreateStoreState(UserInitial, UserMethods)
  /\ Value["count"] = Num(1)
  /\ Value[NestedKey] = Obj(1)
  /\ state[LUT] = Num(now)

StoreWrites == {"set", "setTime", "setReplace", "markUpdate", "update"}

C5_SetRefreshesTime ==
  lastOp = "set" => (LUT \in DOMAIN state /\ state[LUT] = Num(now) /\ TimeOf(state) # 0)

\* C6: getMergedState returns the keys of the current state and of methods,
\* the methods value for every key of methods and the current state value
\* for every other key.
C6_MergedState ==
  lastOp = "getMergedState" =>
    /\ DOMAIN result = DOMAIN state \cup DOMAIN arg
    /\ \A k \in DOMAIN arg : result[k] = arg[k]
    /\ \A k \in DOMAIN state \ DOMAIN arg : result[k] = state[k]

C6_Witness ==
  /\ lastOp = "getMergedState"
  /\ "count" \in DOMAIN arg
  /\ "count" \in DOMAIN state
  /\ LUT \in DOMAIN state
  /\ TimeOf(state) > 0
  /\ Value[NestedKey] = Obj(1)

\* C7: after a reload the new persistent store has, for every field of the
\* old store that is data (user fields and lastUpdateTime), the old store's
\* last value, and agrees with the saved snapshot on every key of it.
C7_ReloadRestores ==
  lastOp = "reload" =>
    /\ \A k \in DOMAIN Serialize(before) : k \in DOMAIN Value /\ Value[k] = before[k]
    /\ \A k \in DOMAIN storage : k \in DOMAIN Value /\ Value[k] = storage[k]

C7_Witness ==
  /\ lastOp = "reload"
  /\ before = Value
  /\ Value["count"] = Num(1)
  /\ Value[NestedKey] = Obj(1)
  /\ TimeOf(state) = 2

\* C8 as claimed: between update's read and its commit no store write takes
\* effect, whoever issues it.
C8_NoWriteDuringUpdate ==
  pc = "mutator" => Value = before

\* C8 amended: between update's read and its commit no write of a caller
\* outside the mutator takes effect; the state differs from what update read
\* only if the mutator itself wrote to the store.
C8_NoOutsideWriteDuringUpdate ==
  (pc = "mutator" /\ ~reentrant) => Value = before

C8_Witness ==
  /\ pc = "mutator"
  /\ ~reentrant
  /\ Struct(draft, heap) # before
  /\ TimeOf(before) > 0

\* C9: the store a factory call produces has the injected markUpdate and
\* update even if the methods factory returned entries of those names, keeps
\* the factory's other methods, and the factory was called once.
C9_InjectedMethods ==
  /\ factoryCalls = 1
  /\ lastOp \in {"create", "reload"} =>
       /\ state["markUpdate"] = Fn(SysMarkUpdate)
       /\ state["update"] = Fn(SysUpdate)
       /\ \A k \in DOMAIN UserMethods \ {"markUpdate", "update"} :
            state[k] = UserMethods[k]

C9_Witness ==
  /\ lastOp = "reload"
  /\ "markUpdate" \in DOMAIN UserMethods
  /\ "update" \in DOMAIN UserMethods
  /\ UserMethods["update"] # state["update"]
  /\ UserMethods["markUpdate"] # state["markUpdate"]

\* C10: update commits by merging: every key left in the draft gets the
\* draft's value, lastUpdateTime gets the clock reading at commit whatever
\* the draft holds for it, and a key the mutator deleted from the draft stays
\* in the store with the value it had before the call.
C10_CommitMerges ==
  lastOp = "update" =>
    /\ Value[LUT] = Num(now)
    /\ \A k \in DOMAIN draft \ {LUT} : Value[k] = draft[k]
    /\ DOMAIN Value = DOMAIN before \cup DOMAIN draft \cup {LUT}
    /\ ~reentrant =>
         \A k \in DOMAIN before \ (DOMAIN draft \cup {LUT}) : Value[k] = before[k]

C10_Witness ==
  /\ lastOp = "update"
  /\ ~reentrant
  /\ "count" \in DOMAIN before
  /\ "count" \notin DOMAIN draft
  /\ Value["count"] = Num(1)
  /\ LUT \in DOMAIN draft
  /\ draft[LUT] # Num(now)

====
